---- MODULE Spec2Model ----
(***************************************************************************)
(* Limit order book matching engines of limit_order_book:                  *)
(*   - deque_lob.ArrayDequeLimitOrderBook      (shared engine, flat array) *)
(*   - deque_lob.BalancedTreeDequeLimitOrderBook (shared engine, two trees)*)
(*   - hash_deque.HashDequeLimitOrderBook      (own add/cancel, one dict)  *)
(* The three books are driven in lockstep by the same sequence of add and  *)
(* cancel calls.  A call that raises a Python exception leaves the book in *)
(* the state reached at the raise, with the exception's name in `err`; a   *)
(* book that has raised receives no further calls.                         *)
(***************************************************************************)
EXTENDS Integers, Sequences, FiniteSets, TLC

\* max_price, the constructor argument of every book
MaxPrice == 2
\* largest quantity of a submitted order
MaxQty == 2
\* number of add calls of a run
MaxOrders == 3
\* number of cancel calls of a run
MaxCancels == 1
Buy == "Buy"
Sell == "Sell"
NoErr == "none"

Prices == 0..MaxPrice
Quantities == 1..MaxQty
Directions == {Buy, Sell}

VARIABLES
    array,      \* the deque_lob ArrayDequeLimitOrderBook
    hash,       \* the HashDequeLimitOrderBook
    tree,       \* the deque_lob BalancedTreeDequeLimitOrderBook
    submitted,  \* history: the orders as they were passed to add, by id
    ncancel,    \* history: the number of cancel calls made
    call        \* the add call each book is executing, loop by loop

vars == <<array, hash, tree, submitted, ncancel, call>>

----------------------------------------------------------------------------
(* Records *)

LimitOrder(id, trader_id, price, quantity, direction) ==
    [id |-> id, trader_id |-> trader_id, price |-> price,
     quantity |-> quantity, direction |-> direction]

\* The MatchedOrder built by add for incoming order lo and resting order
\* entry.  incoming, resting and level are history fields (the ids of the two
\* orders and the resting order's price); the program's record has none.
MatchedOrder(lo, entry, quantity, price) ==
    [buy_trader_id  |-> IF lo.direction = Buy THEN lo.trader_id ELSE entry.trader_id,
     sell_trader_id |-> IF lo.direction = Buy THEN entry.trader_id ELSE lo.trader_id,
     quantity |-> quantity,
     price |-> price,
     incoming |-> lo.id, resting |-> entry.id, level |-> entry.price]

\* Python truthiness of an Optional[int] argument, <<>> being None
Truthy(price) == price # <<>> /\ price[1] # 0

Min2(a, b) == IF a <= b THEN a ELSE b
Max2(a, b) == IF a >= b THEN a ELSE b

\* dict/tree helpers: a mapping is a function over its key set
MapPut(m, k, v) == [x \in DOMAIN m \cup {k} |-> IF x = k THEN v ELSE m[x]]
MapDel(m, k) == [x \in DOMAIN m \ {k} |-> m[x]]
MaxKey(m) == CHOOSE k \in DOMAIN m : \A j \in DOMAIN m : j <= k
MinKey(m) == CHOOSE k \in DOMAIN m : \A j \in DOMAIN m : k <= j

\* the book as an uncaught exception leaves it
Raise(b, e) == [b EXCEPT !.err = e]

\* a price level of a book: the deque stored under key `key` of field `side`
Ref(side, key) == [side |-> side, key |-> key]
Level(b, ref) == b[ref.side][ref.key]
SetLevel(b, ref, entries) == [b EXCEPT ![ref.side][ref.key] = entries]
NoRef == Ref("none", 0)

\* deque.remove(x): drops the first element equal to x (equality is by id)
RemoveFirst(entries, id) ==
    LET i == CHOOSE k \in 1..Len(entries) :
                 /\ entries[k].id = id
                 /\ \A j \in 1..(k - 1) : entries[j].id # id
    IN  SubSeq(entries, 1, i - 1) \o SubSeq(entries, i + 1, Len(entries))

Holds(entries, id) == \E k \in 1..Len(entries) : entries[k].id = id

----------------------------------------------------------------------------
(* deque_lob.ArrayDequeLimitOrderBook *)

ArrayInit ==
    [kind |-> "array", bid_max |-> 0, ask_min |-> MaxPrice,
     price_queues |-> [p \in 0..MaxPrice |-> <<>>],
     orders |-> <<>>, matches |-> <<>>, cancelled |-> <<>>, err |-> NoErr]

Array_best_bid(b) == b.bid_max
Array_best_ask(b) == b.ask_min

\* self.price_queues[price]: a Python list index, negative ones counting from
\* the end, IndexError outside -len..len-1
Array_get_price_level(b, price) ==
    LET n == MaxPrice + 1 IN
    IF price >= -n /\ price < n
    THEN [err |-> NoErr,
          ref |-> Ref("price_queues", IF price < 0 THEN price + n ELSE price)]
    ELSE [err |-> "IndexError", ref |-> NoRef]

Array_add_order_to_queue(b, lo) ==
    LET b1 == [b EXCEPT !.orders = MapPut(@, lo.id, lo)]
        r == Array_get_price_level(b1, lo.price)
    IN  IF r.err # NoErr THEN Raise(b1, r.err)
        ELSE SetLevel(b1, r.ref, Append(Level(b1, r.ref), lo))

RECURSIVE Array_prev_scan(_, _)
Array_prev_scan(b, price) ==
    LET r == Array_get_price_level(b, price) IN
    IF r.err # NoErr THEN [err |-> r.err, val |-> price]
    ELSE IF Len(Level(b, r.ref)) = 0 /\ price > 0
         THEN Array_prev_scan(b, price - 1)
         ELSE [err |-> NoErr, val |-> price]

Array_get_prev_level(b, price) == Array_prev_scan(b, price - 1)

Array_update_best_ask_price(b, price) ==
    LET starting_price == IF Truthy(price)
                          THEN Min2(price[1], Array_best_ask(b))
                          ELSE Array_best_ask(b)
        r == Array_get_price_level(b, starting_price)
    IN  IF r.err # NoErr THEN Raise(b, r.err)
        ELSE IF Len(Level(b, r.ref)) # 0
             THEN [b EXCEPT !.ask_min = starting_price]
             ELSE LET pv == Array_get_prev_level(b, starting_price) IN
                  IF pv.err # NoErr THEN Raise(b, pv.err)
                  ELSE [b EXCEPT !.ask_min = pv.val]

Array_update_best_bid_price(b, price) ==
    LET starting_price == IF Truthy(price)
                          THEN Max2(price[1], Array_best_bid(b))
                          ELSE Array_best_bid(b)
        r == Array_get_price_level(b, starting_price)
    IN  IF r.err # NoErr THEN Raise(b, r.err)
        ELSE IF Len(Level(b, r.ref)) # 0
             THEN [b EXCEPT !.bid_max = starting_price]
             ELSE LET pv == Array_get_prev_level(b, starting_price) IN
                  IF pv.err # NoErr THEN Raise(b, pv.err)
                  ELSE [b EXCEPT !.bid_max = pv.val]

----------------------------------------------------------------------------
(* deque_lob.BalancedTreeDequeLimitOrderBook: a FastAVLTree is an ordered   *)
(* map, modelled as a function over its keys                                *)

TreeInit ==
    [kind |-> "tree", bids |-> <<>>, asks |-> <<>>,
     orders |-> <<>>, matches |-> <<>>, cancelled |-> <<>>, err |-> NoErr]

Tree_best_bid(b) == IF DOMAIN b.bids = {} THEN 0 ELSE MaxKey(b.bids)
Tree_best_ask(b) == IF DOMAIN b.asks = {} THEN MaxPrice ELSE MinKey(b.asks)

\* book.get_value(price) raises KeyError for an absent key
Tree_get_price_level(b, price) ==
    LET side == IF price <= Tree_best_bid(b) THEN "bids" ELSE "asks" IN
    IF price \in DOMAIN b[side]
    THEN [err |-> NoErr, ref |-> Ref(side, price)]
    ELSE [err |-> "KeyError", ref |-> NoRef]

Tree_add_order_to_queue(b, lo) ==
    LET b1 == [b EXCEPT !.orders = MapPut(@, lo.id, lo)]
        side == IF lo.direction = Buy THEN "bids" ELSE "asks"
    IN  IF lo.price \notin DOMAIN b1[side]
        THEN [b1 EXCEPT ![side] = MapPut(@, lo.price, <<lo>>)]
        ELSE [b1 EXCEPT ![side][lo.price] = Append(@, lo)]

Tree_update_best_ask_price(b, price) ==
    LET level == IF price = <<>> THEN Tree_best_ask(b) ELSE price[1]
        r == Tree_get_price_level(b, level)
    IN  IF r.err # NoErr THEN Raise(b, r.err)
        ELSE IF Len(Level(b, r.ref)) = 0
             THEN IF level \in DOMAIN b.asks
                  THEN [b EXCEPT !.asks = MapDel(@, level)]
                  ELSE Raise(b, "KeyError")
             ELSE b

Tree_update_best_bid_price(b, price) ==
    LET level == IF price = <<>> THEN Tree_best_bid(b) ELSE price[1]
        r == Tree_get_price_level(b, level)
    IN  IF r.err # NoErr THEN Raise(b, r.err)
        ELSE IF Len(Level(b, r.ref)) = 0
             THEN IF level \in DOMAIN b.bids
                  THEN [b EXCEPT !.bids = MapDel(@, level)]
                  ELSE Raise(b, "KeyError")
             ELSE b

----------------------------------------------------------------------------
(* BaseDequeLimitOrderBook: the engine shared by the array and tree books;  *)
(* the abstract methods dispatch on the class of the book                   *)

best_bid(b) == IF b.kind = "array" THEN Array_best_bid(b) ELSE Tree_best_bid(b)
best_ask(b) == IF b.kind = "array" THEN Array_best_ask(b) ELSE Tree_best_ask(b)

get_price_level(b, price) ==
    IF b.kind = "array" THEN Array_get_price_level(b, price)
    ELSE Tree_get_price_level(b, price)

add_order_to_queue(b, lo) ==
    IF b.kind = "array" THEN Array_add_order_to_queue(b, lo)
    ELSE Tree_add_order_to_queue(b, lo)

update_best_ask_price(b, price) ==
    IF b.kind = "array" THEN Array_update_best_ask_price(b, price)
    ELSE Tree_update_best_ask_price(b, price)

update_best_bid_price(b, price) ==
    IF b.kind = "array" THEN Array_update_best_bid_price(b, price)
    ELSE Tree_update_best_bid_price(b, price)

\* a plausible slip: execute puts the match at the front of the log
\* (insert(0, matched_order)) instead of appending it
RECURSIVE Base_match_entries_front(_, _, _, _)
Base_match_entries_front(entries, lo, orders, matches) ==
    IF entries = <<>>
    THEN [entries |-> entries, lo |-> lo, orders |-> orders,
          matches |-> matches, done |-> FALSE]
    ELSE LET entry == Head(entries) IN
         IF entry.quantity < lo.quantity
         THEN Base_match_entries_front(
                  Tail(entries),
                  [lo EXCEPT !.quantity = @ - entry.quantity],
                  orders,
                  <<MatchedOrder(lo, entry, entry.quantity, entry.price)>>
                      \o matches)
         ELSE LET amend == entry.quantity > lo.quantity
                  amended == [entry EXCEPT !.quantity = @ - lo.quantity]
              IN  [entries |-> IF amend THEN <<amended>> \o Tail(entries)
                               ELSE Tail(entries),
                   lo |-> lo,
                   orders |-> IF amend
                              THEN [orders EXCEPT ![entry.id] = amended]
                              ELSE orders,
                   matches |-> <<MatchedOrder(lo, entry, lo.quantity,
                                              entry.price)>> \o matches,
                   done |-> TRUE]

\* The inner loop `while entries:` of add, over the deque of one level.
\* done is TRUE when the loop left through `return None`.
RECURSIVE Base_match_entries(_, _, _, _)
Base_match_entries(entries, lo, orders, matches) ==
    IF entries = <<>>
    THEN [entries |-> entries, lo |-> lo, orders |-> orders,
          matches |-> matches, done |-> FALSE]
    ELSE LET entry == Head(entries) IN
         IF entry.quantity < lo.quantity
         THEN Base_match_entries(
                  Tail(entries),
                  [lo EXCEPT !.quantity = @ - entry.quantity],
                  orders,
                  Append(matches,
                         MatchedOrder(lo, entry, entry.quantity, entry.price)))
         ELSE LET amend == entry.quantity > lo.quantity
                  amended == [entry EXCEPT !.quantity = @ - lo.quantity]
              IN  [entries |-> IF amend THEN <<amended>> \o Tail(entries)
                               ELSE Tail(entries),
                   lo |-> lo,
                   orders |-> IF amend
                              THEN [orders EXCEPT ![entry.id] = amended]
                              ELSE orders,
                   matches |-> Append(matches,
                       MatchedOrder(lo, entry, lo.quantity, entry.price)),
                   done |-> TRUE]

\* the conditions of the two outer loops of add
Base_crosses(b, lo) ==
    IF lo.direction = Buy THEN lo.price >= best_ask(b)
    ELSE lo.price <= best_bid(b)

\* add: the outer loop over the crossing levels, then the enqueue of the rest
RECURSIVE Base_add(_, _)
Base_add(b, lo) ==
    LET buy == lo.direction = Buy IN
    IF Base_crosses(b, lo)
    THEN LET r == get_price_level(b, IF buy THEN best_ask(b) ELSE best_bid(b))
         IN
         IF r.err # NoErr THEN Raise(b, r.err)
         ELSE LET m == Base_match_entries(Level(b, r.ref), lo,
                                          b.orders, b.matches)
                  b1 == [SetLevel(b, r.ref, m.entries)
                            EXCEPT !.orders = m.orders, !.matches = m.matches]
              IN  IF m.done THEN b1
                  ELSE LET b2 == IF buy THEN update_best_ask_price(b1, <<>>)
                                 ELSE update_best_bid_price(b1, <<>>)
                       IN  IF b2.err # NoErr THEN b2 ELSE Base_add(b2, m.lo)
    ELSE LET b1 == add_order_to_queue(b, lo) IN
         IF b1.err # NoErr THEN b1
         ELSE IF buy THEN update_best_bid_price(b1, <<lo.price>>)
              ELSE update_best_ask_price(b1, <<lo.price>>)

\* a plausible slip: an unknown id is ignored (self.orders.get) instead of
\* raising
Base_cancel_silent(b, order_id) ==
    IF order_id \notin DOMAIN b.orders THEN b
    ELSE LET limit_order == b.orders[order_id]
             r == get_price_level(b, limit_order.price)
         IN  IF r.err # NoErr THEN Raise(b, r.err)
             ELSE IF ~Holds(Level(b, r.ref), order_id)
                  THEN Raise(b, "ValueError")
                  ELSE [SetLevel(b, r.ref, RemoveFirst(Level(b, r.ref), order_id))
                           EXCEPT !.orders = MapDel(@, order_id),
                                  !.cancelled = Append(@, limit_order)]

\* a plausible slip: the order is deleted from the id map and left in its
\* deque
Base_cancel_map_only(b, order_id) ==
    IF order_id \notin DOMAIN b.orders THEN Raise(b, "KeyError")
    ELSE LET limit_order == b.orders[order_id]
             r == get_price_level(b, limit_order.price)
         IN  IF r.err # NoErr THEN Raise(b, r.err)
             ELSE [b EXCEPT !.orders = MapDel(@, order_id),
                            !.cancelled = Append(@, limit_order)]

Base_cancel(b, order_id) ==
    IF order_id \notin DOMAIN b.orders THEN Raise(b, "KeyError")
    ELSE LET limit_order == b.orders[order_id]
             r == get_price_level(b, limit_order.price)
         IN  IF r.err # NoErr THEN Raise(b, r.err)
             ELSE IF ~Holds(Level(b, r.ref), order_id)
                  THEN Raise(b, "ValueError")
                  ELSE [SetLevel(b, r.ref, RemoveFirst(Level(b, r.ref), order_id))
                           EXCEPT !.orders = MapDel(@, order_id),
                                  !.cancelled = Append(@, limit_order)]

----------------------------------------------------------------------------
(* hash_deque.HashDequeLimitOrderBook: one dict of deques keyed by price,   *)
(* shared by both sides, and its own add and cancel                         *)

HashInit ==
    [kind |-> "hash", bid_max |-> 0, ask_min |-> MaxPrice + 1,
     price_queues |-> <<>>,
     orders |-> <<>>, matches |-> <<>>, cancelled |-> <<>>, err |-> NoErr]

Hash_best_bid(b) == b.bid_max
Hash_best_ask(b) == b.ask_min

\* a plausible slip: appendleft instead of append
Hash_add_order_to_queue_front(b, lo) ==
    LET b1 == [b EXCEPT !.orders = MapPut(@, lo.id, lo)] IN
    IF lo.price \in DOMAIN b1.price_queues
    THEN [b1 EXCEPT !.price_queues[lo.price] = <<lo>> \o @]
    ELSE [b1 EXCEPT !.price_queues = MapPut(@, lo.price, <<lo>>)]

\* self.price_queues.setdefault(price, PriceDeque(price)).append(limit_order)
Hash_add_order_to_queue(b, lo) ==
    LET b1 == [b EXCEPT !.orders = MapPut(@, lo.id, lo)] IN
    IF lo.price \in DOMAIN b1.price_queues
    THEN [b1 EXCEPT !.price_queues[lo.price] = Append(@, lo)]
    ELSE [b1 EXCEPT !.price_queues = MapPut(@, lo.price, <<lo>>)]

\* a plausible slip: `<=` for `<` in the test of the inner loop, so that an
\* incoming order filled exactly goes on with quantity 0
RECURSIVE Hash_match_entries_le(_, _, _, _)
Hash_match_entries_le(entries, lo, orders, matches) ==
    IF entries = <<>>
    THEN [entries |-> entries, lo |-> lo, orders |-> orders,
          matches |-> matches, done |-> FALSE]
    ELSE LET entry == Head(entries) IN
         IF entry.quantity <= lo.quantity
         THEN Hash_match_entries_le(
                  Tail(entries),
                  [lo EXCEPT !.quantity = @ - entry.quantity],
                  orders,
                  Append(matches,
                         MatchedOrder(lo, entry, entry.quantity, entry.price)))
         ELSE LET amended == [entry EXCEPT !.quantity = @ - lo.quantity]
              IN  [entries |-> <<amended>> \o Tail(entries),
                   lo |-> lo,
                   orders |-> [orders EXCEPT ![entry.id] = amended],
                   matches |-> Append(matches,
                       MatchedOrder(lo, entry, lo.quantity, lo.price)),
                   done |-> TRUE]

\* a plausible slip: self-match prevention, a resting order of the incoming
\* order's trader is popped without a match
RECURSIVE Hash_match_entries_smp(_, _, _, _)
Hash_match_entries_smp(entries, lo, orders, matches) ==
    IF entries = <<>>
    THEN [entries |-> entries, lo |-> lo, orders |-> orders,
          matches |-> matches, done |-> FALSE]
    ELSE LET entry == Head(entries) IN
         IF entry.trader_id = lo.trader_id
         THEN Hash_match_entries_smp(Tail(entries), lo, orders, matches)
         ELSE IF entry.quantity < lo.quantity
         THEN Hash_match_entries_smp(
                  Tail(entries),
                  [lo EXCEPT !.quantity = @ - entry.quantity],
                  orders,
                  Append(matches,
                         MatchedOrder(lo, entry, entry.quantity, entry.price)))
         ELSE LET amend == entry.quantity > lo.quantity
                  amended == [entry EXCEPT !.quantity = @ - lo.quantity]
              IN  [entries |-> IF amend THEN <<amended>> \o Tail(entries)
                               ELSE Tail(entries),
                   lo |-> lo,
                   orders |-> IF amend
                              THEN [orders EXCEPT ![entry.id] = amended]
                              ELSE orders,
                   matches |-> Append(matches,
                       MatchedOrder(lo, entry, lo.quantity, lo.price)),
                   done |-> TRUE]

\* The inner loop `while entries:` of HashDequeLimitOrderBook.add.
RECURSIVE Hash_match_entries(_, _, _, _)
Hash_match_entries(entries, lo, orders, matches) ==
    IF entries = <<>>
    THEN [entries |-> entries, lo |-> lo, orders |-> orders,
          matches |-> matches, done |-> FALSE]
    ELSE LET entry == Head(entries) IN
         IF entry.quantity < lo.quantity
         THEN Hash_match_entries(
                  Tail(entries),
                  [lo EXCEPT !.quantity = @ - entry.quantity],
                  orders,
                  Append(matches,
                         MatchedOrder(lo, entry, entry.quantity, entry.price)))
         ELSE LET amend == entry.quantity > lo.quantity
                  amended == [entry EXCEPT !.quantity = @ - lo.quantity]
              IN  [entries |-> IF amend THEN <<amended>> \o Tail(entries)
                               ELSE Tail(entries),
                   lo |-> lo,
                   orders |-> IF amend
                              THEN [orders EXCEPT ![entry.id] = amended]
                              ELSE orders,
                   matches |-> Append(matches,
                       MatchedOrder(lo, entry, lo.quantity, lo.price)),
                   done |-> TRUE]

\* a plausible slip: the loop conditions with strict comparisons
Hash_crosses_strict(b, lo) ==
    IF lo.direction = Buy THEN lo.price > b.ask_min
    ELSE lo.price < b.bid_max

\* the conditions of the two outer loops of HashDequeLimitOrderBook.add
Hash_crosses(b, lo) ==
    IF lo.direction = Buy THEN lo.price >= b.ask_min
    ELSE lo.price <= b.bid_max

\* a plausible slip: the order is enqueued without moving the pointer of its
\* side to its price
RECURSIVE Hash_add_keep_pointer(_, _)
Hash_add_keep_pointer(b, lo) ==
    LET buy == lo.direction = Buy
        at == IF buy THEN b.ask_min ELSE b.bid_max
    IN
    IF Hash_crosses(b, lo)
    THEN LET stored == at \in DOMAIN b.price_queues
             entries == IF stored THEN b.price_queues[at] ELSE <<>>
             m == Hash_match_entries(entries, lo, b.orders, b.matches)
             b1 == [b EXCEPT !.orders = m.orders, !.matches = m.matches,
                             !.price_queues =
                                 IF stored THEN [@ EXCEPT ![at] = m.entries]
                                 ELSE @]
         IN  IF m.done THEN b1
             ELSE Hash_add_keep_pointer(
                      IF buy THEN [b1 EXCEPT !.ask_min = @ + 1]
                      ELSE [b1 EXCEPT !.bid_max = @ - 1],
                      m.lo)
    ELSE Hash_add_order_to_queue(b, lo)

RECURSIVE Hash_add(_, _)
Hash_add(b, lo) ==
    LET buy == lo.direction = Buy
        at == IF buy THEN b.ask_min ELSE b.bid_max
    IN
    IF Hash_crosses(b, lo)
    THEN LET stored == at \in DOMAIN b.price_queues
             \* .get(at, PriceDeque(price=at)): a fresh empty deque when absent
             entries == IF stored THEN b.price_queues[at] ELSE <<>>
             m == Hash_match_entries(entries, lo, b.orders, b.matches)
             b1 == [b EXCEPT !.orders = m.orders, !.matches = m.matches,
                             !.price_queues =
                                 IF stored THEN [@ EXCEPT ![at] = m.entries]
                                 ELSE @]
         IN  IF m.done THEN b1
             ELSE Hash_add(IF buy THEN [b1 EXCEPT !.ask_min = @ + 1]
                           ELSE [b1 EXCEPT !.bid_max = @ - 1],
                           m.lo)
    ELSE LET b1 == Hash_add_order_to_queue(b, lo) IN
         IF buy
         THEN IF b1.bid_max < lo.price
              THEN [b1 EXCEPT !.bid_max = lo.price] ELSE b1
         ELSE IF b1.ask_min > lo.price
              THEN [b1 EXCEPT !.ask_min = lo.price] ELSE b1

\* a plausible slip: the head of the level is popped instead of the order
Hash_cancel_popleft(b, order_id) ==
    IF order_id \notin DOMAIN b.orders THEN Raise(b, "KeyError")
    ELSE LET limit_order == b.orders[order_id] IN
         IF limit_order.price \notin DOMAIN b.price_queues
         THEN Raise(b, "KeyError")
         ELSE IF b.price_queues[limit_order.price] = <<>>
              THEN Raise(b, "IndexError")
              ELSE [b EXCEPT !.price_queues[limit_order.price] = Tail(@),
                             !.orders = MapDel(@, order_id),
                             !.cancelled = Append(@, limit_order)]

Hash_cancel(b, order_id) ==
    IF order_id \notin DOMAIN b.orders THEN Raise(b, "KeyError")
    ELSE LET limit_order == b.orders[order_id] IN
         IF limit_order.price \notin DOMAIN b.price_queues
         THEN Raise(b, "KeyError")
         ELSE IF ~Holds(b.price_queues[limit_order.price], order_id)
              THEN Raise(b, "ValueError")
              ELSE [b EXCEPT !.price_queues[limit_order.price] =
                                 RemoveFirst(@, order_id),
                             !.orders = MapDel(@, order_id),
                             !.cancelled = Append(@, limit_order)]

----------------------------------------------------------------------------
(* The driver: the same call goes to every book that has not raised *)

Live(b) == b.err = NoErr

add(b, lo) == IF b.kind = "hash" THEN Hash_add(b, lo) ELSE Base_add(b, lo)
cancel(b, order_id) ==
    IF b.kind = "hash" THEN Hash_cancel(b, order_id)
    ELSE Base_cancel(b, order_id)

Call_add(b, lo) == IF Live(b) THEN add(b, lo) ELSE b
Call_cancel(b, order_id) == IF Live(b) THEN cancel(b, order_id) ELSE b

\* every deque of a book, as a set of sequences
Deques(b) ==
    IF b.kind = "tree"
    THEN {b.bids[p] : p \in DOMAIN b.bids} \cup {b.asks[p] : p \in DOMAIN b.asks}
    ELSE {b.price_queues[p] : p \in DOMAIN b.price_queues}

\* the orders held in the deques of a book
Resting(b) == UNION {{q[i] : i \in 1..Len(q)} : q \in Deques(b)}
RestingIds(b) == {o.id : o \in Resting(b)}

\* no book is inside a call of add
Idle == [pc |-> "idle"]
NoCall == [array |-> Idle, hash |-> Idle, tree |-> Idle]

Init ==
    /\ array = ArrayInit
    /\ hash = HashInit
    /\ tree = TreeInit
    /\ submitted = <<>>
    /\ ncancel = 0
    /\ call = NoCall

\* The trader of the order with the given id: the orders of a run alternate
\* between two traders, so that orders of one trader and of different traders
\* both meet.
TraderOf(id) == 1 + (id % 2)

Add(direction, price, quantity) ==
    /\ Len(submitted) < MaxOrders
    /\ Live(array) \/ Live(hash) \/ Live(tree)
    /\ LET id == Len(submitted) + 1
           lo == LimitOrder(id, TraderOf(id), price, quantity, direction)
       IN  /\ submitted' = Append(submitted, lo)
           /\ array' = Call_add(array, lo)
           /\ hash' = Call_add(hash, lo)
           /\ tree' = Call_add(tree, lo)
           /\ UNCHANGED <<ncancel, call>>

Cancel(order_id) ==
    /\ ncancel < MaxCancels
    /\ \/ Live(array) /\ order_id \in RestingIds(array)
       \/ Live(hash) /\ order_id \in RestingIds(hash)
       \/ Live(tree) /\ order_id \in RestingIds(tree)
    /\ array' = Call_cancel(array, order_id)
    /\ hash' = Call_cancel(hash, order_id)
    /\ tree' = Call_cancel(tree, order_id)
    /\ ncancel' = ncancel + 1
    /\ UNCHANGED <<submitted, call>>

Next ==
    \/ \E d \in Directions, p \in Prices, q \in Quantities : Add(d, p, q)
    \/ \E id \in 1..MaxOrders : Cancel(id)

Spec == Init /\ [][Next]_vars

----------------------------------------------------------------------------
(* Properties *)

Opposite(direction) == IF direction = Buy THEN Sell ELSE Buy

\* the matches a call appended to the log of a book
NewMatches(b, b2) == SubSeq(b2.matches, Len(b.matches) + 1, Len(b2.matches))

RECURSIVE SumQty(_)
SumQty(s) == IF s = <<>> THEN 0 ELSE Head(s).quantity + SumQty(Tail(s))

RestingBuys(b) == {o \in Resting(b) : o.direction = Buy}
RestingSells(b) == {o \in Resting(b) : o.direction = Sell}

\* C1: in the array book, best_bid < best_ask whenever a call has returned
\* (after any sequence of valid add and cancel calls).
C1_ArrayBestBidBelowBestAsk ==
    Live(array) => Array_best_bid(array) < Array_best_ask(array)

NoCrossedPair(b) ==
    \A x \in RestingBuys(b), y \in RestingSells(b) : x.price < y.price

\* C2: in the hash book and in the tree book no resting Buy is priced at or
\* above a resting Sell, after every sequence of valid add and cancel calls.
C2_NoCrossedRestingPair == NoCrossedPair(hash) /\ NoCrossedPair(tree)

\* an add matched part of the incoming order and rested its residual while
\* orders of the opposite side still rest, in both books
C2_Witness ==
    /\ Live(hash) /\ Live(tree)
    /\ \A b \in {hash, tree} :
          /\ b.matches # <<>>
          /\ b.matches[Len(b.matches)].incoming \in RestingIds(b)
          /\ RestingBuys(b) # {} /\ RestingSells(b) # {}

\* p is a strictly better price than q for an incoming order of the given
\* direction to trade at: lower for a Buy, higher for a Sell
Better(direction, p, q) == IF direction = Buy THEN p < q ELSE p > q

\* The matches of one add with orders of the opposite side, from book b to
\* book b2, respect price priority: the levels hit never get better along the
\* log, and no order of the opposite side priced strictly better than a level
\* that was hit is left resting.  (An order resting at a better level when a match is emitted
\* is either hit later or still rests when the call ends.)
PricePriority(b, b2) ==
    LET direction == submitted'[Len(submitted')].direction
        new == SelectSeq(NewMatches(b, b2),
                         LAMBDA m : submitted'[m.resting].direction
                                        = Opposite(direction))
    IN  new # <<>> =>
        /\ \A i, j \in 1..Len(new) :
               i < j => ~Better(direction, new[j].level, new[i].level)
        /\ \A i \in 1..Len(new), o \in Resting(b2) :
               o.direction = Opposite(direction)
                   => ~Better(direction, o.price, new[i].level)

\* C3: price priority across levels, in every back-end: within one add an
\* incoming Buy consumes ask levels in increasing price order from the lowest
\* resting Sell (a Sell: bid levels in decreasing order from the highest
\* resting Buy); no match is emitted at a level while a strictly better
\* priced opposite level still holds a resting order.
C3_PricePriority ==
    [][/\ PricePriority(array, array')
       /\ PricePriority(hash, hash')
       /\ PricePriority(tree, tree')]_vars

\* the deques of a book are stored under these fields
Sides(b) == IF b.kind = "tree" THEN {"bids", "asks"} ELSE {"price_queues"}
QueueAt(b, side, p) == IF p \in DOMAIN b[side] THEN b[side][p] ELSE <<>>

\* what the matches ms filled of the resting order id
FilledOf(ms, id) == SumQty(SelectSeq(ms, LAMBDA m : m.resting = id))

\* One add, from book b to book b2, of the order with id `incoming`, treats
\* the deque `old` (become `new`) in arrival order: the first k orders were
\* filled completely and popped, the next one is still the head, reduced by
\* what it was filled, the ones behind it are untouched, and the incoming
\* order, when it rests here, is the last one.
TimePriorityAt(old, new, ms, incoming) ==
    \E k \in 0..Len(old) :
        LET kept == SubSeq(old, k + 1, Len(old))
            stay == IF new # <<>> /\ new[Len(new)].id = incoming
                    THEN SubSeq(new, 1, Len(new) - 1) ELSE new
        IN  /\ \A i \in 1..k : FilledOf(ms, old[i].id) = old[i].quantity
            /\ Len(stay) = Len(kept)
            /\ \A i \in 1..Len(stay) : stay[i].id # incoming
            /\ \A i \in 1..Len(kept) :
                   /\ stay[i].id = kept[i].id
                   /\ stay[i].quantity = kept[i].quantity - FilledOf(ms, kept[i].id)
                   /\ i > 1 => FilledOf(ms, kept[i].id) = 0

TimePriority(b, b2) ==
    \A side \in Sides(b), p \in Prices :
        TimePriorityAt(QueueAt(b, side, p), QueueAt(b2, side, p),
                       NewMatches(b, b2), Len(submitted'))

\* C4: time priority within a level: an order that rested later at the same
\* price gets no fill until every earlier one is completely filled; a partly
\* filled resting order stays at the head with its reduced quantity, and a
\* newly resting order is appended at the tail.
C4_TimePriority ==
    [][submitted' # submitted =>
          /\ Live(array) => TimePriority(array, array')
          /\ Live(hash) => TimePriority(hash, hash')
          /\ Live(tree) => TimePriority(tree, tree')]_vars

\* In every book two orders rested at one level, the earlier one (a) was
\* then hit by a later add and the later one (o) has had no fill.
C4_Witness ==
    \A b \in {array, hash, tree} :
        /\ Live(b)
        /\ \E i \in 1..Len(b.matches) : \E o \in Resting(b) :
              LET m == b.matches[i]
                  a == submitted[m.resting]
              IN  /\ a.id < o.id /\ o.id < m.incoming
                  /\ o.price = a.price /\ o.direction = a.direction
                  /\ o.quantity = submitted[o.id].quantity

MatchPriceLaw(b) ==
    \A i \in 1..Len(b.matches) : b.matches[i].price = b.matches[i].level

\* C5: every MatchedOrder emitted by add, in the hash book and in the shared
\* engine, carries the price of the resting order it was matched against.
C5_MatchPriceIsRestingPrice ==
    MatchPriceLaw(hash) /\ MatchPriceLaw(array) /\ MatchPriceLaw(tree)

LimitRespected(b) ==
    \A i \in 1..Len(b.matches) :
        LET m == b.matches[i]
            lo == submitted[m.incoming]
        IN  IF lo.direction = Buy THEN m.level <= lo.price
            ELSE m.level >= lo.price

\* C6: in every back-end a match pairs an incoming Buy with limit p only with
\* a resting order priced <= p, and an incoming Sell with limit p only with a
\* resting order priced >= p.
C6_LimitPriceRespected ==
    LimitRespected(array) /\ LimitRespected(hash) /\ LimitRespected(tree)

\* what is accounted for of the order id in book b: the quantity of the
\* matches it took part in, what of it still rests, and the residual its
\* cancel removed
Accounted(b, id) ==
    LET matched == SelectSeq(b.matches,
                             LAMBDA m : m.incoming = id \/ m.resting = id)
        resting == {o \in Resting(b) : o.id = id}
        removed == SelectSeq(b.cancelled, LAMBDA o : o.id = id)
    IN  SumQty(matched)
        + (IF resting = {} THEN 0 ELSE (CHOOSE o \in resting : TRUE).quantity)
        + SumQty(removed)

\* the add of the order id failed in book b before it emitted any match
Refused(b, id) ==
    /\ ~Live(b)
    /\ submitted' # submitted /\ id = Len(submitted')
    /\ \A i \in 1..Len(b.matches) : b.matches[i].incoming # id

Conservation(b) ==
    \A id \in 1..Len(submitted') :
        Refused(b, id) \/ submitted'[id].quantity = Accounted(b, id)

\* C7: per-order quantity conservation: after every add and cancel call made
\* to a book, each order submitted so far (an order whose add failed without
\* a match aside) has its submitted quantity equal to the quantity of its
\* matches plus what of it still rests plus the residual removed by its
\* cancel.
C7_QuantityConservation ==
    [][/\ Live(array) => Conservation(array')
       /\ Live(hash) => Conservation(hash')
       /\ Live(tree) => Conservation(tree')]_vars

\* how often the order id occurs in the deques of book b
Occurrences(b, id) ==
    Cardinality({<<side, p, i>> \in Sides(b) \X (-1..MaxPrice) \X (1..MaxOrders) :
                    /\ p \in DOMAIN b[side]
                    /\ i <= Len(b[side][p])
                    /\ b[side][p][i].id = id})

IdMapConsistent(b) ==
    /\ DOMAIN b.orders = RestingIds(b)
    /\ \A id \in DOMAIN b.orders : Occurrences(b, id) = 1

\* C8: after every add and cancel the ids of the `orders` map are exactly the
\* ids of the orders held in the price queues, each in exactly one queue; a
\* resting order filled completely leaves the map in the same add.
C8_IdMapConsistency ==
    /\ Live(array) => IdMapConsistent(array)
    /\ Live(hash) => IdMapConsistent(hash)
    /\ Live(tree) => IdMapConsistent(tree)

BestBid(b) == IF b.kind = "hash" THEN Hash_best_bid(b) ELSE best_bid(b)
BestAsk(b) == IF b.kind = "hash" THEN Hash_best_ask(b) ELSE best_ask(b)

\* the value of best_ask of a freshly constructed book
AskSentinel(b) == IF b.kind = "hash" THEN MaxPrice + 1 ELSE MaxPrice

BestAccurate(b) ==
    /\ BestBid(b) = IF RestingBuys(b) = {} THEN 0
                    ELSE CHOOSE p \in {o.price : o \in RestingBuys(b)} :
                             \A o \in RestingBuys(b) : o.price <= p
    /\ BestAsk(b) = IF RestingSells(b) = {} THEN AskSentinel(b)
                    ELSE CHOOSE p \in {o.price : o \in RestingSells(b)} :
                             \A o \in RestingSells(b) : p <= o.price

\* C9: in every back-end, after every add and cancel, best_bid is the highest
\* price at which a Buy rests, or 0 when none rests, and best_ask the lowest
\* price at which a Sell rests, or the back-end's empty-side sentinel.
C9_BestPriceAccuracy ==
    /\ Live(array) => BestAccurate(array)
    /\ Live(hash) => BestAccurate(hash)
    /\ Live(tree) => BestAccurate(tree)

\* the match log without the ids, and the resting orders as tuples
MatchLog(b) ==
    [i \in 1..Len(b.matches) |->
        [buy_trader_id |-> b.matches[i].buy_trader_id,
         sell_trader_id |-> b.matches[i].sell_trader_id,
         price |-> b.matches[i].price,
         quantity |-> b.matches[i].quantity]]

RestingTuples(b) ==
    {[side |-> o.direction, price |-> o.price, trader_id |-> o.trader_id,
      quantity |-> o.quantity] : o \in Resting(b)}

\* C10: cross-variant equivalence: after the same sequence of valid add and
\* cancel calls from the empty book, which each of the three books completed,
\* they hold the same sequence of matches (ids aside) and the same set of
\* resting (side, price, trader_id, quantity) tuples.
C10_CrossVariantEquivalence ==
    Live(array) /\ Live(hash) /\ Live(tree) =>
        /\ MatchLog(array) = MatchLog(hash)
        /\ MatchLog(hash) = MatchLog(tree)
        /\ RestingTuples(array) = RestingTuples(hash)
        /\ RestingTuples(hash) = RestingTuples(tree)

\* the order passed to the add of this step
Incoming == submitted'[Len(submitted')]

\* the order lo crosses no resting order of the opposite side of book b
NonCrossing(b, lo) ==
    IF lo.direction = Buy THEN \A o \in RestingSells(b) : o.price > lo.price
    ELSE \A o \in RestingBuys(b) : o.price < lo.price

\* from book b to book b2 the add of lo returned, emitted no match, appended
\* lo as submitted to the queue of its price, recorded it in the id map and
\* left every other queue and id map entry as it was
RestsUnchanged(b, b2, lo) ==
    /\ Live(b2)
    /\ b2.matches = b.matches
    /\ DOMAIN b2.orders = DOMAIN b.orders \cup {lo.id}
    /\ b2.orders[lo.id] = lo
    /\ \A id \in DOMAIN b.orders : b2.orders[id] = b.orders[id]
    /\ \E s \in Sides(b) :
          \A side \in Sides(b), p \in Prices :
              QueueAt(b2, side, p) =
                  IF side = s /\ p = lo.price
                  THEN Append(QueueAt(b, side, p), lo)
                  ELSE QueueAt(b, side, p)

\* C11: a non-crossing order rests unchanged: in every back-end and for every
\* price of 0..max_price, the add of a Buy at p when no Sell rests at a price
\* <= p (of a Sell at p when no Buy rests at a price >= p) returns, emits no
\* match, puts the order with its full quantity at the tail of the queue of
\* p, records it in the id map and leaves every other resting order unchanged.
C11_NonCrossingOrderRests ==
    [][submitted' # submitted =>
          /\ Live(array) /\ NonCrossing(array, Incoming)
                 => RestsUnchanged(array, array', Incoming)
          /\ Live(hash) /\ NonCrossing(hash, Incoming)
                 => RestsUnchanged(hash, hash', Incoming)
          /\ Live(tree) /\ NonCrossing(tree, Incoming)
                 => RestsUnchanged(tree, tree', Incoming)]_vars

\* this step is the call cancel(order_id), made to every book that has not
\* raised
IsCancelCall(order_id) ==
    /\ array' = Call_cancel(array, order_id)
    /\ hash' = Call_cancel(hash, order_id)
    /\ tree' = Call_cancel(tree, order_id)

\* from book b to book b2 the cancel of order_id returned and removed that
\* order, and nothing else, from its queue and from the id map
CancelledExactly(b, b2, order_id) ==
    /\ Live(b2)
    /\ b2.matches = b.matches
    /\ b2.orders = MapDel(b.orders, order_id)
    /\ \A side \in Sides(b), p \in Prices :
           QueueAt(b2, side, p) =
               SelectSeq(QueueAt(b, side, p), LAMBDA o : o.id # order_id)
    /\ RestingIds(b2) = RestingIds(b) \ {order_id}

\* C12: cancel(order_id) of an order that rests succeeds in every back-end and
\* removes exactly that order from its queue and from the id map; the
\* quantities and the queue order of all other resting orders and the match
\* log are unchanged.
C12_CancelRemovesExactlyTheOrder ==
    [][ncancel' # ncancel =>
          \A order_id \in 1..MaxOrders :
              IsCancelCall(order_id) =>
                  /\ Live(array) /\ order_id \in RestingIds(array)
                         => CancelledExactly(array, array', order_id)
                  /\ Live(hash) /\ order_id \in RestingIds(hash)
                         => CancelledExactly(hash, hash', order_id)
                  /\ Live(tree) /\ order_id \in RestingIds(tree)
                         => CancelledExactly(tree, tree', order_id)]_vars

\* In every book an order was cancelled while another order rested behind or
\* before it at the same price, after a match had been logged.
C12_Witness ==
    \A b \in {array, hash, tree} :
        /\ Live(b)
        /\ b.cancelled # <<>>
        /\ b.matches # <<>>
        /\ \E o \in Resting(b) : o.price = b.cancelled[1].price

\* from book b to book b2 an add that raised left the book as it was
Atomic(b, b2) == Live(b) /\ ~Live(b2) => b2 = Raise(b, b2.err)

\* C17: atomicity of add for valid orders: an add either runs to completion
\* or fails having emitted no match and changed no queue, id map entry or
\* best pointer.
C17_AddAtomicity ==
    [][submitted' # submitted =>
          /\ Atomic(array, array')
          /\ Atomic(hash, hash')
          /\ Atomic(tree, tree')]_vars

PositiveQuantities(b) == \A o \in Resting(b) : o.quantity > 0

NoEmptyLevel(b) ==
    \A side \in Sides(b) : \A p \in DOMAIN b[side] : b[side][p] # <<>>

\* C19: in the hash book and in the tree book, after every add and cancel
\* that returned, no price level with an empty queue is in the price index.
C19_NoEmptyLevelInIndex ==
    /\ Live(hash) => NoEmptyLevel(hash)
    /\ Live(tree) => NoEmptyLevel(tree)

----------------------------------------------------------------------------
(* Calls outside the valid ones: a cancel of an id that is not in the id   *)
(* map, and adds of orders that are not valid (quantity <= 0, price        *)
(* outside 0..max_price, an id that is already in the id map).             *)

\* the same cancel call on every book that has not raised, for an id that
\* none of them has in its id map
CancelUnknown(order_id) ==
    /\ ncancel < MaxCancels
    /\ Live(array) \/ Live(hash) \/ Live(tree)
    /\ \A b \in {array, hash, tree} : Live(b) => order_id \notin DOMAIN b.orders
    /\ array' = Call_cancel(array, order_id)
    /\ hash' = Call_cancel(hash, order_id)
    /\ tree' = Call_cancel(tree, order_id)
    /\ ncancel' = ncancel + 1
    /\ UNCHANGED <<submitted, call>>

NextCancel ==
    \/ Next
    \/ \E id \in 1..(MaxOrders + 1) : CancelUnknown(id)

SpecCancel == Init /\ [][NextCancel]_vars

\* quantities and prices of orders that are not valid
BadQuantities == {-1, 0}
BadPrices == {-1, MaxPrice + 1}

\* every order passed to add so far was valid and had a fresh id
AllValid ==
    \A i \in 1..Len(submitted) :
        /\ submitted[i].id = i
        /\ submitted[i].price \in Prices
        /\ submitted[i].quantity > 0

\* the same add call on every book that has not raised
Submit(lo) ==
    /\ Len(submitted) < MaxOrders
    /\ Live(array) \/ Live(hash) \/ Live(tree)
    /\ submitted' = Append(submitted, lo)
    /\ array' = Call_add(array, lo)
    /\ hash' = Call_add(hash, lo)
    /\ tree' = Call_add(tree, lo)
    /\ UNCHANGED <<ncancel, call>>

AddBadQuantity(direction, price, quantity) ==
    LET id == Len(submitted) + 1
    IN  quantity <= 0 /\
        Submit(LimitOrder(id, TraderOf(id), price, quantity, direction))

AddBadPrice(direction, price, quantity) ==
    LET id == Len(submitted) + 1
    IN  price \notin Prices /\
        Submit(LimitOrder(id, TraderOf(id), price, quantity, direction))

AddDuplicateId(order_id, direction, price, quantity) ==
    /\ \/ Live(array) /\ order_id \in DOMAIN array.orders
       \/ Live(hash) /\ order_id \in DOMAIN hash.orders
       \/ Live(tree) /\ order_id \in DOMAIN tree.orders
    /\ Submit(LimitOrder(order_id, TraderOf(order_id), price, quantity, direction))

\* A run of valid calls, ended by one add of an order that is not valid.
NextInvalid ==
    \/ AllValid /\ Next
    \/ AllValid /\ \E d \in Directions, p \in Prices, q \in BadQuantities :
                       AddBadQuantity(d, p, q)
    \/ AllValid /\ \E d \in Directions, p \in BadPrices, q \in Quantities :
                       AddBadPrice(d, p, q)
    \/ AllValid /\ \E id \in 1..MaxOrders, d \in Directions, p \in Prices,
                      q \in Quantities : AddDuplicateId(id, d, p, q)

SpecInvalid == Init /\ [][NextInvalid]_vars

\* from book b to book b2 the call failed and left the book as it was
Rejected(b, b2) == ~Live(b2) /\ b2 = Raise(b, b2.err)

\* in this step a book that has not raised and has no order_id in its id map
\* ends otherwise than unchanged with a KeyError
NotRefused(order_id) ==
    \/ /\ Live(array) /\ order_id \notin DOMAIN array.orders
       /\ array' # Raise(array, "KeyError")
    \/ /\ Live(hash) /\ order_id \notin DOMAIN hash.orders
       /\ hash' # Raise(hash, "KeyError")
    \/ /\ Live(tree) /\ order_id \notin DOMAIN tree.orders
       /\ tree' # Raise(tree, "KeyError")

\* C13: cancel(order_id) with an id that is not in the id map fails with a
\* caller-visible error (KeyError) and leaves the queues, the id map, the best
\* pointers and the match log as they were: no step in which a book without
\* order_id in its id map ends otherwise is a call cancel(order_id).
C13_CancelUnknownIdFails ==
    [][ncancel' # ncancel =>
          \A order_id \in 1..(MaxOrders + 1) :
              NotRefused(order_id) => ~IsCancelCall(order_id)]_vars

\* The array and the hash book refused the cancel of an unknown id while
\* they held a resting order and a logged match.  (Their adds raise no
\* KeyError.)
C13_Witness ==
    \A b \in {array, hash} :
        /\ b.err = "KeyError"
        /\ Resting(b) # {}
        /\ b.matches # <<>>

\* C14: the add of an order with quantity <= 0 is rejected: no match is
\* emitted, nothing rests and the book is unchanged.
C14_NonPositiveQuantityRejected ==
    [][submitted' # submitted /\ Incoming.quantity <= 0 =>
          /\ Live(array) => Rejected(array, array')
          /\ Live(hash) => Rejected(hash, hash')
          /\ Live(tree) => Rejected(tree, tree')]_vars

\* C15: the add of an order with a price below 0 or above max_price is
\* rejected before any state change.
C15_OutOfRangePriceRejected ==
    [][submitted' # submitted /\ Incoming.price \notin Prices =>
          /\ Live(array) => Rejected(array, array')
          /\ Live(hash) => Rejected(hash, hash')
          /\ Live(tree) => Rejected(tree, tree')]_vars

\* C16: the add of an order whose id is already in the id map is rejected and
\* leaves the book unchanged (so no id map entry is overwritten and no queue
\* gets a second order with that id).
C16_DuplicateIdRejected ==
    [][submitted' # submitted =>
          /\ Live(array) /\ Incoming.id \in DOMAIN array.orders
                 => Rejected(array, array')
          /\ Live(hash) /\ Incoming.id \in DOMAIN hash.orders
                 => Rejected(hash, hash')
          /\ Live(tree) /\ Incoming.id \in DOMAIN tree.orders
                 => Rejected(tree, tree')]_vars

----------------------------------------------------------------------------
(* The level snapshots of the shared engine: get_top_bids_as_dataframe and *)
(* get_top_asks_as_dataframe, with the level walks of the two back-ends.   *)
(* A result is [err, data], data being the list the DataFrame is built of. *)

RECURSIVE Array_next_scan(_, _)
Array_next_scan(b, price) ==
    LET r == Array_get_price_level(b, price) IN
    IF r.err # NoErr THEN [err |-> r.err, val |-> price]
    ELSE IF Len(Level(b, r.ref)) = 0 /\ price < MaxPrice
         THEN Array_next_scan(b, price + 1)
         ELSE [err |-> NoErr, val |-> price]

Array_get_next_level(b, price) == Array_next_scan(b, price + 1)

\* max_item and min_item raise ValueError on an empty tree; succ_item and
\* prev_item raise KeyError for an absent key and for the last (first) key
Tree_get_next_level(b, price) ==
    IF price = Tree_best_bid(b)
    THEN [err |-> NoErr, val |-> Tree_best_ask(b)]
    ELSE IF DOMAIN b.asks = {} THEN [err |-> "ValueError", val |-> price]
    ELSE IF price = MaxKey(b.asks) THEN [err |-> NoErr, val |-> MaxPrice]
    ELSE LET side == IF price <= Tree_best_bid(b) THEN "bids" ELSE "asks"
             after == {k \in DOMAIN b[side] : k > price}
         IN  IF price \notin DOMAIN b[side] \/ after = {}
             THEN [err |-> "KeyError", val |-> price]
             ELSE [err |-> NoErr,
                   val |-> CHOOSE k \in after : \A j \in after : k <= j]

Tree_get_prev_level(b, price) ==
    IF price = Tree_best_ask(b)
    THEN [err |-> NoErr, val |-> Tree_best_bid(b)]
    ELSE IF DOMAIN b.bids = {} THEN [err |-> "ValueError", val |-> price]
    ELSE IF price = MinKey(b.bids) THEN [err |-> NoErr, val |-> 0]
    ELSE LET side == IF price <= Tree_best_bid(b) THEN "bids" ELSE "asks"
             before == {k \in DOMAIN b[side] : k < price}
         IN  IF price \notin DOMAIN b[side] \/ before = {}
             THEN [err |-> "KeyError", val |-> price]
             ELSE [err |-> NoErr,
                   val |-> CHOOSE k \in before : \A j \in before : j <= k]

get_next_level(b, price) ==
    IF b.kind = "array" THEN Array_get_next_level(b, price)
    ELSE Tree_get_next_level(b, price)

get_prev_level(b, price) ==
    IF b.kind = "array" THEN Array_get_prev_level(b, price)
    ELSE Tree_get_prev_level(b, price)

\* PriceDeque.as_dict of the deque created for `price` and holding `entries`
as_dict(price, entries) ==
    [Price |-> price, Quantity |-> SumQty(entries), NumOrders |-> Len(entries)]

\* the loop of get_top_bids_as_dataframe
RECURSIVE Base_top_bids(_, _, _, _)
Base_top_bids(b, levels, current_level, data) ==
    IF Len(data) < levels /\ current_level > 0
    THEN LET r == get_price_level(b, current_level) IN
         IF r.err # NoErr THEN [err |-> r.err, data |-> data]
         ELSE LET level == Level(b, r.ref)
                  data1 == IF Len(level) # 0
                           THEN Append(data, as_dict(r.ref.key, level))
                           ELSE data
                  pv == get_prev_level(b, current_level)
              IN  IF pv.err # NoErr THEN [err |-> pv.err, data |-> data1]
                  ELSE Base_top_bids(b, levels, pv.val, data1)
    ELSE [err |-> NoErr, data |-> data]

get_top_bids_as_dataframe(b, levels) ==
    Base_top_bids(b, levels, best_bid(b), <<>>)

\* the loop of get_top_asks_as_dataframe
RECURSIVE Base_top_asks(_, _, _, _)
Base_top_asks(b, levels, current_level, data) ==
    IF Len(data) < levels /\ current_level < MaxPrice
    THEN LET r == get_price_level(b, current_level) IN
         IF r.err # NoErr THEN [err |-> r.err, data |-> data]
         ELSE LET level == Level(b, r.ref)
                  data1 == IF Len(level) # 0
                           THEN Append(data, as_dict(r.ref.key, level))
                           ELSE data
                  nx == get_next_level(b, current_level)
              IN  IF nx.err # NoErr THEN [err |-> nx.err, data |-> data1]
                  ELSE Base_top_asks(b, levels, nx.val, data1)
    ELSE [err |-> NoErr, data |-> data]

get_top_asks_as_dataframe(b, levels) ==
    Base_top_asks(b, levels, best_ask(b), <<>>)

\* the values of the argument `levels`
LevelCounts == 0..(MaxPrice + 2)

\* the prices of S in descending order
RECURSIVE Descending(_)
Descending(S) ==
    IF S = {} THEN <<>>
    ELSE LET m == CHOOSE k \in S : \A j \in S : j <= k
         IN  <<m>> \o Descending(S \ {m})

Reverse(s) == [i \in 1..Len(s) |-> s[Len(s) + 1 - i]]

\* the orders of the given direction resting at price p, in queue order
RECURSIVE RestingAt(_, _, _, _)
RestingAt(b, sides, p, direction) ==
    IF sides = {} THEN <<>>
    ELSE LET side == CHOOSE s \in sides : TRUE
         IN  SelectSeq(QueueAt(b, side, p), LAMBDA o : o.direction = direction)
             \o RestingAt(b, sides \ {side}, p, direction)

\* the first n levels holding a resting order of the given direction, best
\* price first, as rows of price, total remaining quantity and order count
TopLevels(b, direction, n) ==
    LET prices == {o.price : o \in {x \in Resting(b) : x.direction = direction}}
        sorted == IF direction = Buy THEN Descending(prices)
                  ELSE Reverse(Descending(prices))
    IN  [i \in 1..Min2(n, Len(sorted)) |->
            as_dict(sorted[i], RestingAt(b, Sides(b), sorted[i], direction))]

TopOfBookExact(b) ==
    \A n \in LevelCounts :
        /\ get_top_bids_as_dataframe(b, n)
               = [err |-> NoErr, data |-> TopLevels(b, Buy, n)]
        /\ get_top_asks_as_dataframe(b, n)
               = [err |-> NoErr, data |-> TopLevels(b, Sell, n)]

\* C20: in the shared engine (array and tree books), after calls that
\* returned, get_top_bids_as_dataframe(n) is exactly the min(n, number of
\* prices with a resting Buy) highest bid levels in descending price order and
\* get_top_asks_as_dataframe(n) the lowest ask levels in ascending order, each
\* row with the price, the total remaining quantity and the number of orders,
\* a bid level at 0 and an ask level at max_price included.
C20_TopOfBookSnapshots ==
    /\ Live(array) => TopOfBookExact(array)
    /\ Live(tree) => TopOfBookExact(tree)

----------------------------------------------------------------------------
(* The level snapshots of the hash book *)

\* the loop of HashDequeLimitOrderBook.get_top_bids_as_dataframe
RECURSIVE Hash_top_bids(_, _, _, _)
Hash_top_bids(b, levels, current_level, data) ==
    IF Len(data) < levels /\ current_level > 0
    THEN Hash_top_bids(b, levels, current_level - 1,
             IF current_level \in DOMAIN b.price_queues
             THEN Append(data,
                      as_dict(current_level, b.price_queues[current_level]))
             ELSE data)
    ELSE data

Hash_get_top_bids_as_dataframe(b, levels) ==
    Hash_top_bids(b, levels, Hash_best_bid(b), <<>>)

\* the loop of HashDequeLimitOrderBook.get_top_asks_as_dataframe
RECURSIVE Hash_top_asks(_, _, _, _)
Hash_top_asks(b, levels, current_level, data) ==
    IF Len(data) < levels /\ current_level < MaxPrice
    THEN Hash_top_asks(b, levels, current_level + 1,
             IF current_level \in DOMAIN b.price_queues
             THEN Append(data,
                      as_dict(current_level, b.price_queues[current_level]))
             ELSE data)
    ELSE data

Hash_get_top_asks_as_dataframe(b, levels) ==
    Hash_top_asks(b, levels, Hash_best_ask(b), <<>>)

NoEmptyRow(data) == \A i \in 1..Len(data) : data[i].NumOrders # 0

\* C21: in every reachable state of the hash book, no row returned by
\* get_top_bids_as_dataframe(n) or get_top_asks_as_dataframe(n) has
\* NumOrders = 0, and the rows are the n best levels that hold resting orders.
C21_HashSnapshotsNonEmptyLevels ==
    Live(hash) =>
        \A n \in LevelCounts :
            /\ NoEmptyRow(Hash_get_top_bids_as_dataframe(hash, n))
            /\ NoEmptyRow(Hash_get_top_asks_as_dataframe(hash, n))
            /\ Hash_get_top_bids_as_dataframe(hash, n) = TopLevels(hash, Buy, n)
            /\ Hash_get_top_asks_as_dataframe(hash, n) = TopLevels(hash, Sell, n)

----------------------------------------------------------------------------
(* The match log over the calls of a run *)

IsPrefix(s, t) == Len(s) <= Len(t) /\ SubSeq(t, 1, Len(s)) = s

\* one call on book b, leaving it as b2: the log grows at its end only, a
\* cancel leaves it alone, and what an add appends are matches of the order
\* it was called with, behind the matches of the orders submitted before
LogAppendOnly(b, b2) ==
    /\ IsPrefix(b.matches, b2.matches)
    /\ ncancel' # ncancel => b2.matches = b.matches
    /\ submitted' # submitted =>
           /\ \A i \in 1..Len(b.matches) : b2.matches[i].incoming < Incoming.id
           /\ \A i \in (Len(b.matches) + 1)..Len(b2.matches) :
                  b2.matches[i].incoming = Incoming.id

\* C22: the match log is append-only and in execution order: over every add
\* and cancel the log before the call is a prefix of the log after it, cancel
\* does not change it, and the matches of one add come after all matches of
\* the earlier submissions.
C22_MatchLogAppendOnly ==
    [][/\ LogAppendOnly(array, array')
       /\ LogAppendOnly(hash, hash')
       /\ LogAppendOnly(tree, tree')]_vars

\* every book has logged matches of two different adds and then completed a
\* cancel of an order submitted no earlier than the second of them
C22_Witness ==
    \A b \in {array, hash, tree} :
        /\ Live(b)
        /\ Len(b.matches) >= 2
        /\ b.matches[1].incoming < b.matches[2].incoming
        /\ b.cancelled # <<>>
        /\ b.cancelled[1].id >= b.matches[2].incoming

----------------------------------------------------------------------------
(* Trader ids.  In SpecTraders every add carries any of the traders, so    *)
(* that every assignment of traders to the orders of a run is a behaviour. *)
(* Each run is followed along by the run of the same calls in which one    *)
(* trader owns every order: Relabel(b, f) is book b with the trader of     *)
(* every order id taken from f.                                            *)

Traders == {1, 2}
\* number of add calls of a run of SpecTraders
MaxTraderAdds == 3

AddAs(trader_id, direction, price, quantity) ==
    /\ Len(submitted) < MaxTraderAdds
    /\ Live(array) \/ Live(hash) \/ Live(tree)
    /\ LET id == Len(submitted) + 1
           lo == LimitOrder(id, trader_id, price, quantity, direction)
       IN  /\ submitted' = Append(submitted, lo)
           /\ array' = Call_add(array, lo)
           /\ hash' = Call_add(hash, lo)
           /\ tree' = Call_add(tree, lo)
           /\ UNCHANGED <<ncancel, call>>

NextTraders ==
    \/ \E t \in Traders, d \in Directions, p \in Prices, q \in Quantities :
           AddAs(t, d, p, q)
    \/ \E id \in 1..MaxTraderAdds : Cancel(id)

SpecTraders == Init /\ [][NextTraders]_vars

OneTrader == [id \in 1..MaxTraderAdds |-> 1]

WithTrader(o, f) == [o EXCEPT !.trader_id = f[o.id]]
RelabelSeq(q, f) == [i \in 1..Len(q) |-> WithTrader(q[i], f)]
RelabelLevels(m, f) == [p \in DOMAIN m |-> RelabelSeq(m[p], f)]

RelabelMatch(m, f) ==
    LET buy == submitted'[m.incoming].direction = Buy IN
    [m EXCEPT !.buy_trader_id = IF buy THEN f[m.incoming] ELSE f[m.resting],
              !.sell_trader_id = IF buy THEN f[m.resting] ELSE f[m.incoming]]

Relabel(b, f) ==
    LET b1 == [b EXCEPT
                  !.orders = [id \in DOMAIN b.orders |-> WithTrader(b.orders[id], f)],
                  !.cancelled = RelabelSeq(b.cancelled, f),
                  !.matches = [i \in 1..Len(b.matches) |->
                                  RelabelMatch(b.matches[i], f)]]
    IN  IF b.kind = "tree"
        THEN [b1 EXCEPT !.bids = RelabelLevels(b.bids, f),
                        !.asks = RelabelLevels(b.asks, f)]
        ELSE [b1 EXCEPT !.price_queues = RelabelLevels(b.price_queues, f)]

\* the call that took b to b2, made on the relabelled book with the
\* relabelled order, ends in the relabelled b2 (a book that has raised gets
\* no call)
AddCommutes(b, b2, f) ==
    Live(b) => add(Relabel(b, f), WithTrader(Incoming, f)) = Relabel(b2, f)

CancelCommutes(b, b2, f, order_id) ==
    Live(b) => cancel(Relabel(b, f), order_id) = Relabel(b2, f)

\* The ids a cancel step can have been called with: a book that completed
\* the cancel has logged the order in `cancelled`, and only a cancel of that
\* id does so; when no book completed it, any id.
CancelCandidates ==
    LET done == {b \in {<<array, array'>>, <<hash, hash'>>, <<tree, tree'>>} :
                     Len(b[2].cancelled) > Len(b[1].cancelled)}
    IN  IF done = {} THEN 1..MaxOrders
        ELSE {b[2].cancelled[Len(b[2].cancelled)].id : b \in done}

\* C23: trader ids do not influence matching: whatever traders the orders of
\* a run carry (the same trader on both sides of a match included), the run
\* goes through the states of the run in which one trader owns every order,
\* up to the trader ids; so two runs of the same add and cancel calls that
\* differ in trader ids only log matches of the same prices and quantities in
\* the same order and keep the same resting prices and quantities.
C23_TraderIdsDoNotInfluenceMatching ==
    [][/\ submitted' # submitted =>
              /\ AddCommutes(array, array', OneTrader)
              /\ AddCommutes(hash, hash', OneTrader)
              /\ AddCommutes(tree, tree', OneTrader)
       /\ ncancel' # ncancel =>
              \A order_id \in CancelCandidates :
                  IsCancelCall(order_id) =>
                      /\ CancelCommutes(array, array', OneTrader, order_id)
                      /\ CancelCommutes(hash, hash', OneTrader, order_id)
                      /\ CancelCommutes(tree, tree', OneTrader, order_id)]_vars

\* every book has matched an incoming order against a resting order of the
\* same trader and against one of the other trader
C23_Witness ==
    \A b \in {array, hash, tree} :
        /\ Live(b)
        /\ \E i \in 1..Len(b.matches) :
               b.matches[i].buy_trader_id = b.matches[i].sell_trader_id
        /\ \E i \in 1..Len(b.matches) :
               b.matches[i].buy_trader_id # b.matches[i].sell_trader_id

----------------------------------------------------------------------------
(* The best-price pointers of the array book *)

\* the incoming order lo crosses the level at the pointer of array book b,
\* that level holds orders, and they fill less than lo
ExhaustsBest(b, lo) ==
    LET at == IF lo.direction = Buy THEN b.ask_min ELSE b.bid_max
        r == Array_get_price_level(b, at)
    IN  /\ Base_crosses(b, lo)
        /\ r.err = NoErr
        /\ Level(b, r.ref) # <<>>
        /\ SumQty(Level(b, r.ref)) < lo.quantity

\* book b as the inner loop of add leaves it once that level is used up
AfterBestLevel(b, lo) ==
    LET at == IF lo.direction = Buy THEN b.ask_min ELSE b.bid_max
        r == Array_get_price_level(b, at)
        m == Base_match_entries(Level(b, r.ref), lo, b.orders, b.matches)
    IN  [SetLevel(b, r.ref, m.entries)
            EXCEPT !.orders = m.orders, !.matches = m.matches]

\* the lowest non-empty level above p, or the upper boundary
LevelAbove(b, p) ==
    LET S == {q \in Prices : q > p /\ b.price_queues[q] # <<>>} IN
    IF S = {} THEN MaxPrice ELSE CHOOSE q \in S : \A j \in S : q <= j

\* the highest non-empty level below p, or the lower boundary
LevelBelow(b, p) ==
    LET S == {q \in Prices : q < p /\ b.price_queues[q] # <<>>} IN
    IF S = {} THEN 0 ELSE CHOOSE q \in S : \A j \in S : j <= q

PointerAdvances(b, lo) ==
    ExhaustsBest(b, lo) =>
        LET b1 == AfterBestLevel(b, lo) IN
        IF lo.direction = Buy
        THEN LET b2 == Array_update_best_ask_price(b1, <<>>) IN
             Live(b2) /\ b2.ask_min = LevelAbove(b1, b.ask_min)
        ELSE LET b2 == Array_update_best_bid_price(b1, <<>>) IN
             Live(b2) /\ b2.bid_max = LevelBelow(b1, b.bid_max)

\* C24: in the array book, when an incoming Buy has emptied the queue at
\* best_ask and has quantity left, ask_min moves up to the lowest non-empty
\* level above the emptied one, or to the upper boundary; when an incoming
\* Sell has emptied the queue at best_bid, bid_max moves down to the highest
\* non-empty level below it, or to the lower boundary.
C24_ArrayPointerAdvancesPastEmptiedLevel ==
    [][submitted' # submitted /\ Live(array) =>
           PointerAdvances(array, Incoming)]_vars

\* the add of lo took array book b to b2, where lo rests at a better price
\* than the pointer of its side named in b
JumpsToBetterPrice(b, b2, lo) ==
    lo.id \in RestingIds(b2) =>
        /\ lo.direction = Sell /\ lo.price < b.ask_min => b2.ask_min = lo.price
        /\ lo.direction = Buy /\ lo.price > b.bid_max => b2.bid_max = lo.price

\* C25: in the array book, when a Sell rests at a price p strictly below the
\* current best_ask, best_ask becomes p, and when a Buy rests at a price p
\* strictly above the current best_bid, best_bid becomes p, for every p in
\* 0..max_price, p = 0 included.
C25_ArrayPointerJumpsToBetterPrice ==
    [][submitted' # submitted /\ Live(array) =>
           JumpsToBetterPrice(array, array', Incoming)]_vars

----------------------------------------------------------------------------
(* The books of the package's top-level modules, limit_order_book/         *)
(* array_deque.py and limit_order_book/balanced_tree.py, whose add takes   *)
(* (trader_id, direction, quantity, price) and builds the LimitOrder       *)
(* itself.  In SpecTop the variable `array` holds the ArrayDeque book of   *)
(* array_deque.py and `tree` the BalancedTreeDeque book of                 *)
(* balanced_tree.py; `hash` gets no calls.  The uuid of an order is        *)
(* modelled by the number of the add call that was made with it.           *)

TopArrayInit ==
    [kind |-> "top_array", bid_max |-> 0, ask_min |-> MaxPrice + 1,
     price_queues |-> [p \in 0..(MaxPrice - 1) |-> <<>>],
     orders |-> <<>>, matches |-> <<>>, cancelled |-> <<>>, err |-> NoErr]

TopTreeInit ==
    [kind |-> "top_tree", bids |-> <<>>, asks |-> <<>>,
     orders |-> <<>>, matches |-> <<>>, cancelled |-> <<>>, err |-> NoErr]

\* self.price_queues[price] of the array book: a list index
TopArray_index(b, price) ==
    LET n == Cardinality(DOMAIN b.price_queues) IN
    IF price >= -n /\ price < n
    THEN [err |-> NoErr, key |-> IF price < 0 THEN price + n ELSE price]
    ELSE [err |-> "IndexError", key |-> 0]

\* The inner loop `while entries:` of add, the same text in both modules.
\* For a Buy the match carries the incoming order's price and, in the last
\* match, is built before the resting order is amended; for a Sell it
\* carries the resting order's price and, in the last match, the resting
\* order's quantity as it is after the amendment.
RECURSIVE Top_match_entries(_, _, _, _)
Top_match_entries(entries, lo, orders, matches) ==
    IF entries = <<>>
    THEN [entries |-> entries, lo |-> lo, orders |-> orders,
          matches |-> matches, done |-> FALSE]
    ELSE LET entry == Head(entries)
             buy == lo.direction = Buy
         IN
         IF entry.quantity < lo.quantity
         THEN Top_match_entries(
                  Tail(entries),
                  [lo EXCEPT !.quantity = @ - entry.quantity],
                  orders,
                  Append(matches,
                         MatchedOrder(lo, entry, entry.quantity,
                                      IF buy THEN lo.price ELSE entry.price)))
         ELSE LET amend == entry.quantity > lo.quantity
                  amended == [entry EXCEPT !.quantity = @ - lo.quantity]
                  after == IF amend THEN amended ELSE entry
              IN  [entries |-> IF amend THEN <<amended>> \o Tail(entries)
                               ELSE Tail(entries),
                   lo |-> lo,
                   orders |-> IF amend
                              THEN [orders EXCEPT ![entry.id] = amended]
                              ELSE orders,
                   matches |-> Append(matches,
                       IF buy
                       THEN MatchedOrder(lo, entry, lo.quantity, lo.price)
                       ELSE MatchedOrder(lo, entry, after.quantity,
                                         entry.price)),
                   done |-> TRUE]

TopArray_add_order_to_queue(b, lo) ==
    LET b1 == [b EXCEPT !.orders = MapPut(@, lo.id, lo)]
        r == TopArray_index(b1, lo.price)
    IN  IF r.err # NoErr THEN Raise(b1, r.err)
        ELSE [b1 EXCEPT !.price_queues[r.key] = Append(@, lo)]

RECURSIVE TopArray_add(_, _)
TopArray_add(b, lo) ==
    LET buy == lo.direction = Buy
        at == IF buy THEN b.ask_min ELSE b.bid_max
    IN
    IF (IF buy THEN lo.price >= b.ask_min ELSE lo.price <= b.bid_max)
    THEN LET r == TopArray_index(b, at) IN
         IF r.err # NoErr THEN Raise(b, r.err)
         ELSE LET m == Top_match_entries(b.price_queues[r.key], lo,
                                         b.orders, b.matches)
                  b1 == [b EXCEPT !.price_queues[r.key] = m.entries,
                                  !.orders = m.orders, !.matches = m.matches]
              IN  IF m.done THEN b1
                  ELSE TopArray_add(IF buy THEN [b1 EXCEPT !.ask_min = @ + 1]
                                    ELSE [b1 EXCEPT !.bid_max = @ - 1],
                                    m.lo)
    ELSE LET b1 == TopArray_add_order_to_queue(b, lo) IN
         IF b1.err # NoErr THEN b1
         ELSE IF buy
              THEN IF b1.bid_max < lo.price
                   THEN [b1 EXCEPT !.bid_max = lo.price] ELSE b1
              ELSE IF b1.ask_min > lo.price
                   THEN [b1 EXCEPT !.ask_min = lo.price] ELSE b1

TopArray_cancel(b, order_id) ==
    IF order_id \notin DOMAIN b.orders THEN Raise(b, "KeyError")
    ELSE LET limit_order == b.orders[order_id]
             r == TopArray_index(b, limit_order.price)
         IN  IF r.err # NoErr THEN Raise(b, r.err)
             ELSE IF ~Holds(b.price_queues[r.key], order_id)
                  THEN Raise(b, "ValueError")
                  ELSE [b EXCEPT !.price_queues[r.key] =
                                     RemoveFirst(@, order_id),
                                 !.orders = MapDel(@, order_id),
                                 !.cancelled = Append(@, limit_order)]

TopTree_best_bid(b) == IF DOMAIN b.bids = {} THEN 0 ELSE MaxKey(b.bids)
TopTree_best_ask(b) ==
    IF DOMAIN b.asks = {} THEN MaxPrice + 1 ELSE MinKey(b.asks)

TopTree_add_order_to_queue(b, lo) ==
    LET b1 == [b EXCEPT !.orders = MapPut(@, lo.id, lo)]
        side == IF lo.direction = Buy THEN "bids" ELSE "asks"
    IN  IF lo.price \notin DOMAIN b1[side]
        THEN [b1 EXCEPT ![side] = MapPut(@, lo.price, <<lo>>)]
        ELSE [b1 EXCEPT ![side][lo.price] = Append(@, lo)]

RECURSIVE TopTree_add(_, _)
TopTree_add(b, lo) ==
    LET buy == lo.direction = Buy
        side == IF buy THEN "asks" ELSE "bids"
        at == IF buy THEN TopTree_best_ask(b) ELSE TopTree_best_bid(b)
    IN
    IF /\ IF buy THEN lo.price >= at ELSE lo.price <= at
       /\ DOMAIN b[side] # {}
    THEN LET m == Top_match_entries(b[side][at], lo, b.orders, b.matches)
             b1 == [b EXCEPT ![side][at] = m.entries,
                             !.orders = m.orders, !.matches = m.matches]
         IN  IF m.done THEN b1
             ELSE TopTree_add([b1 EXCEPT ![side] = MapDel(@, at)], m.lo)
    ELSE TopTree_add_order_to_queue(b, lo)

TopTree_cancel(b, order_id) ==
    IF order_id \notin DOMAIN b.orders THEN Raise(b, "KeyError")
    ELSE LET limit_order == b.orders[order_id]
             side == IF limit_order.direction = Buy THEN "bids" ELSE "asks"
         IN  IF limit_order.price \notin DOMAIN b[side]
             THEN Raise(b, "KeyError")
             ELSE IF ~Holds(b[side][limit_order.price], order_id)
                  THEN Raise(b, "ValueError")
                  ELSE [b EXCEPT ![side][limit_order.price] =
                                     RemoveFirst(@, order_id),
                                 !.orders = MapDel(@, order_id),
                                 !.cancelled = Append(@, limit_order)]

\* the orders held in the deques of a top-level book
TopResting(b) ==
    LET qs == IF b.kind = "top_tree"
              THEN {b.bids[p] : p \in DOMAIN b.bids}
                       \cup {b.asks[p] : p \in DOMAIN b.asks}
              ELSE {b.price_queues[p] : p \in DOMAIN b.price_queues}
    IN  UNION {{q[i] : i \in 1..Len(q)} : q \in qs}

InitTop ==
    /\ array = TopArrayInit
    /\ tree = TopTreeInit
    /\ hash = HashInit
    /\ submitted = <<>>
    /\ ncancel = 0
    /\ call = NoCall

TopAdd(direction, price, quantity) ==
    /\ Len(submitted) < MaxOrders
    /\ Live(array) \/ Live(tree)
    /\ LET id == Len(submitted) + 1
           lo == LimitOrder(id, TraderOf(id), price, quantity, direction)
       IN  /\ submitted' = Append(submitted, lo)
           /\ array' = IF Live(array) THEN TopArray_add(array, lo) ELSE array
           /\ tree' = IF Live(tree) THEN TopTree_add(tree, lo) ELSE tree
           /\ UNCHANGED <<hash, ncancel, call>>

TopCancel(order_id) ==
    /\ ncancel < MaxCancels
    /\ \/ Live(array) /\ order_id \in {o.id : o \in TopResting(array)}
       \/ Live(tree) /\ order_id \in {o.id : o \in TopResting(tree)}
    /\ array' = IF Live(array) THEN TopArray_cancel(array, order_id) ELSE array
    /\ tree' = IF Live(tree) THEN TopTree_cancel(tree, order_id) ELSE tree
    /\ ncancel' = ncancel + 1
    /\ UNCHANGED <<hash, submitted, call>>

\* quantities passed to add of the top-level books: one more than MaxQty, so
\* that an order can rest with a quantity of 2 after a partial fill
TopQuantities == 1..(MaxQty + 1)

NextTop ==
    \/ \E d \in Directions, p \in Prices, q \in TopQuantities : TopAdd(d, p, q)
    \/ \E id \in 1..MaxOrders : TopCancel(id)

SpecTop == InitTop /\ [][NextTop]_vars

\* C26: an array book (in SpecTop the one of limit_order_book/array_deque.py,
\* in Spec the one of deque_lob) is constructed with exactly one empty queue
\* for each price 0..max_price, and an order priced at max_price submitted to
\* the empty book is stored in the queue for max_price.
C26_ArrayOneQueuePerPrice ==
    /\ submitted = <<>> => array.price_queues = [p \in Prices |-> <<>>]
    /\ Len(submitted) = 1 /\ ncancel = 0 /\ submitted[1].price = MaxPrice =>
           /\ Live(array)
           /\ MaxPrice \in DOMAIN array.price_queues
           /\ array.price_queues[MaxPrice] = <<submitted[1]>>

----------------------------------------------------------------------------
(* The pointer left at a level that cancel has emptied *)

\* the best-price pointer of book b for the side of the given direction
Pointer(b, direction) == IF direction = Buy THEN b.bid_max ELSE b.ask_min

\* the book of the same class after the add calls of s, none cancelled
RECURSIVE Replay(_, _)
Replay(b, s) == IF s = <<>> THEN b ELSE Replay(Call_add(b, Head(s)), Tail(s))

NewBook(b) == IF b.kind = "array" THEN ArrayInit
              ELSE IF b.kind = "hash" THEN HashInit ELSE TreeInit

\* the run of book b had one cancel, of order x, which was never matched and
\* was alone at the pointer of its side; the pointer still names that level,
\* and the level is empty
StalePointer(b, x) ==
    /\ Live(b)
    /\ ncancel = 1
    /\ b.cancelled = <<x>>
    /\ x = submitted[x.id]
    /\ \A i \in 1..Len(b.matches) :
           b.matches[i].resting # x.id /\ b.matches[i].incoming # x.id
    /\ Pointer(b, x.direction) = x.price
    /\ b.price_queues[x.price] = <<>>

\* the pointer of the side names no level that belongs to the other side and
\* passes no resting order of its own side
PointerOnSide(b, direction) ==
    IF direction = Sell
    THEN /\ \A o \in RestingBuys(b) : o.price < b.ask_min
         /\ \A o \in RestingSells(b) : b.ask_min <= o.price
    ELSE /\ \A o \in RestingSells(b) : b.bid_max < o.price
         /\ \A o \in RestingBuys(b) : o.price <= b.bid_max

\* the condition of the outer loop of add for order lo, in book b
Crosses(b, lo) ==
    IF b.kind = "hash" THEN Hash_crosses(b, lo) ELSE Base_crosses(b, lo)

\* the add of lo took b to b2
LazyCorrection(b, b2, lo) ==
    \A x \in {b.cancelled[i] : i \in 1..Len(b.cancelled)} :
        StalePointer(b, x) =>
            /\ x.direction # lo.direction /\ Crosses(b, lo) =>
                   LET c == Replay(NewBook(b),
                                   SelectSeq(submitted, LAMBDA o : o.id # x.id))
                       c2 == Call_add(c, lo)
                   IN  /\ Live(b2)
                       /\ NewMatches(b, b2) = NewMatches(c, c2)
                       /\ {o \in Resting(b2) : o.id = lo.id}
                              = {o \in Resting(c2) : o.id = lo.id}
            /\ x.direction = lo.direction /\ lo.id \in RestingIds(b2)
                   /\ NewMatches(b, b2) = <<>> =>
                   Live(b2) /\ PointerOnSide(b2, lo.direction)

\* C27: lazy correction after cancel in the array and the hash book: when
\* cancel has removed the only order at best_ask (best_bid) and the pointer
\* still names the emptied level, the next add whose price crosses the pointer
\* steps past the empty level and produces exactly the matches and the resting
\* residual it would have produced had the cancelled order never been
\* submitted; and a later non-crossing order resting on the same side leaves
\* the pointer at a level on that side.
C27_LazyCorrectionAfterCancel ==
    [][submitted' # submitted =>
           /\ LazyCorrection(array, array', Incoming)
           /\ LazyCorrection(hash, hash', Incoming)]_vars

----------------------------------------------------------------------------
(* Cancelled orders *)

\* one call took b to b2: an order whose cancel has returned is in no deque
\* and under no id afterwards, and no match the call logged names it
CancelledStaysOut(b, b2) ==
    /\ \A i \in 1..Len(b2.cancelled) :
           /\ b2.cancelled[i].id \notin RestingIds(b2)
           /\ b2.cancelled[i].id \notin DOMAIN b2.orders
    /\ \A i \in 1..Len(b.cancelled) :
           \A k \in (Len(b.matches) + 1)..Len(b2.matches) :
               /\ b2.matches[k].resting # b.cancelled[i].id
               /\ b2.matches[k].incoming # b.cancelled[i].id

\* C28: once cancel(order_id) of a resting order has returned, the order
\* takes part in no later match: no later add logs a match against it or
\* changes its quantity, in any of the three books.
C28_CancelledOrderNeverMatches ==
    [][/\ Live(array) => CancelledStaysOut(array, array')
       /\ Live(hash) => CancelledStaysOut(hash, hash')
       /\ Live(tree) => CancelledStaysOut(tree, tree')]_vars

\* in every book an order was cancelled and a later add was matched with the
\* order queued behind it at its level
C28_Witness ==
    \A b \in {array, hash, tree} :
        /\ Live(b)
        /\ \E i \in 1..Len(b.cancelled), k \in 1..Len(b.matches) :
               /\ b.matches[k].level = b.cancelled[i].price
               /\ b.matches[k].resting > b.cancelled[i].id
               /\ b.matches[k].incoming > b.matches[k].resting
               /\ submitted[b.matches[k].resting].direction
                      = b.cancelled[i].direction

----------------------------------------------------------------------------
(* Matches of the top-level books *)

\* the last match logged by the add of lo, which filled lo against a resting
\* order that had more quantity than lo had left: the match has that
\* quantity and the resting order is reduced by it
PartialFillOfResting(b, b2, lo) ==
    LET last == b2.matches[Len(b2.matches)]
        rest == lo.quantity - SumQty(SubSeq(b2.matches, Len(b.matches) + 1,
                                            Len(b2.matches) - 1))
        mine == {o \in TopResting(b) : o.id = last.resting}
    IN  /\ Len(b2.matches) > Len(b.matches)
        /\ \E o \in mine : o.quantity > rest
        => /\ last.quantity = rest
           /\ \A o \in mine :
                  [o EXCEPT !.quantity = @ - rest] \in TopResting(b2)

\* C29: in add of limit_order_book/array_deque.py and
\* limit_order_book/balanced_tree.py, when the head resting order has more
\* quantity than the incoming order has left, the match has the incoming
\* order's remaining quantity and the resting order is reduced by exactly
\* that amount, for incoming Buys and Sells alike.
C29_TopPartialFillQuantity ==
    [][submitted' # submitted =>
           /\ Live(array) /\ Live(array') =>
                  PartialFillOfResting(array, array', Incoming)
           /\ Live(tree) /\ Live(tree') =>
                  PartialFillOfResting(tree, tree', Incoming)]_vars

\* every match of book b is priced at the price of its resting order
ExecutesAtRestingPrice(b) ==
    \A i \in 1..Len(b.matches) : b.matches[i].price = b.matches[i].level

\* C30: in add of limit_order_book/array_deque.py and
\* limit_order_book/balanced_tree.py, an incoming Buy whose limit is above the
\* price of the resting Sell it hits executes at the resting Sell's price, as
\* an incoming Sell executes at the resting Buy's price.
C30_TopExecutionAtRestingPrice ==
    ExecutesAtRestingPrice(array) /\ ExecutesAtRestingPrice(tree)

----------------------------------------------------------------------------
(* The latest matches *)

\* s[start:] of a Python list: a negative start counts from the end and is
\* clamped at the front of the list, a start past the end gives the empty list
PySliceFrom(s, start) ==
    LET from == IF start < 0 THEN Max2(Len(s) + start, 0)
                ELSE Min2(start, Len(s))
    IN  SubSeq(s, from + 1, Len(s))

\* MatchedOrder.as_dict; the uuid of the match is represented by the pair of
\* orders it matched
Match_as_dict(m) ==
    [Id |-> <<m.incoming, m.resting>>,
     BuyTraderId |-> m.buy_trader_id,
     SellTraderId |-> m.sell_trader_id,
     Quantity |-> m.quantity,
     Price |-> m.price]

get_latest_matches(b, n) ==
    LET latest == PySliceFrom(b.matches, 0 - n)
    IN  [i \in 1..Len(latest) |-> Match_as_dict(latest[i])]

\* the numbers of matches asked for
MatchCounts == 0..(MaxOrders + 1)

\* the last min(n, number of matches) entries of the log, in execution order
LastMatches(b, n) ==
    LET k == Min2(n, Len(b.matches))
    IN  [i \in 1..k |-> Match_as_dict(b.matches[Len(b.matches) - k + i])]

LatestMatchesExact(b) ==
    \A n \in MatchCounts : get_latest_matches(b, n) = LastMatches(b, n)

\* C31: get_latest_matches(n) returns the last min(n, number of matches)
\* entries of the match log in execution order, for every n >= 0; n = 0
\* returns no match.
C31_LatestMatches ==
    LatestMatchesExact(array) /\ LatestMatchesExact(hash)
        /\ LatestMatchesExact(tree)

----------------------------------------------------------------------------
(* The pointers of the Hash book *)

\* every resting Buy is at or below bid_max, every resting Sell at or above
\* ask_min, and the pointers do not cross
PointersSound(b) ==
    /\ \A o \in Resting(b) :
           /\ o.direction = Buy => o.price <= b.bid_max
           /\ o.direction = Sell => o.price >= b.ask_min
    /\ b.bid_max < b.ask_min

\* C32: in the Hash book, after every add and cancel with valid orders, every
\* resting Buy has price <= bid_max, every resting Sell has price >= ask_min
\* and bid_max < ask_min.
C32_HashPointersSound ==
    PointersSound(hash)

\* a Buy and a Sell rest in the Hash book after a match was made
C32_Witness ==
    /\ Live(hash)
    /\ hash.matches # <<>>
    /\ \E o \in Resting(hash) : o.direction = Buy
    /\ \E o \in Resting(hash) : o.direction = Sell

PointersInRange(b) ==
    /\ b.bid_max >= 0
    /\ b.ask_min \in 0..(MaxPrice + 1)

\* C33: in the Hash book and the array book, for every sequence of valid
\* operations (a Sell at price 0 and a Buy at max_price on the empty book
\* included), bid_max never becomes negative and ask_min stays within
\* 0..max_price + 1.
C33_PointersInRange ==
    PointersInRange(hash) /\ PointersInRange(array)

----------------------------------------------------------------------------
(* One queue per price, shared by both sides *)

\* no queue of book b holds a Buy and a Sell
OneSidedQueues(b) ==
    \A q \in Deques(b) : \A i, j \in 1..Len(q) : q[i].direction = q[j].direction

\* every match of book b pairs an incoming order with a resting order of the
\* opposite direction
OppositeSidesMatched(b) ==
    \A i \in 1..Len(b.matches) :
        submitted[b.matches[i].incoming].direction
            # submitted[b.matches[i].resting].direction

\* C34: in the array book and the Hash book, which keep one queue per price
\* for both sides, no queue ever holds a Buy and a Sell and every match pairs
\* the incoming order with a resting order of the opposite direction.
C34_SharedQueuesOneSided ==
    /\ OneSidedQueues(array) /\ OppositeSidesMatched(array)
    /\ OneSidedQueues(hash) /\ OppositeSidesMatched(hash)

----------------------------------------------------------------------------
(* Add followed by cancel *)

\* the resting orders of book b at price p on the given side, in queue order
QueueOf(b, direction, p) ==
    LET q == IF b.kind = "tree"
             THEN LET side == IF direction = Buy THEN b.bids ELSE b.asks
                  IN  IF p \in DOMAIN side THEN side[p] ELSE <<>>
             ELSE IF p \in DOMAIN b.price_queues THEN b.price_queues[p]
                  ELSE <<>>
    IN  SelectSeq(q, LAMBDA o : o.direction = direction)

TopBidRows(b, n) ==
    IF b.kind = "hash" THEN [err |-> NoErr,
                             data |-> Hash_get_top_bids_as_dataframe(b, n)]
    ELSE get_top_bids_as_dataframe(b, n)

TopAskRows(b, n) ==
    IF b.kind = "hash" THEN [err |-> NoErr,
                             data |-> Hash_get_top_asks_as_dataframe(b, n)]
    ELSE get_top_asks_as_dataframe(b, n)

\* what a caller can observe of book b
Observable(b) ==
    [err |-> b.err,
     queues |-> [d \in Directions |-> [p \in Prices |-> QueueOf(b, d, p)]],
     orders |-> b.orders,
     matches |-> b.matches,
     best_bid |-> BestBid(b),
     best_ask |-> BestAsk(b),
     top_bids |-> [n \in LevelCounts |-> TopBidRows(b, n)],
     top_asks |-> [n \in LevelCounts |-> TopAskRows(b, n)]]

\* the book after add(lo) followed by cancel(lo.id)
AddThenCancel(b, lo) == Call_cancel(Call_add(b, lo), lo.id)

RoundTrip(b) ==
    \A d \in Directions, p \in Prices, q \in Quantities :
        LET lo == LimitOrder(Len(submitted) + 1, TraderOf(Len(submitted) + 1),
                             p, q, d)
        IN  NonCrossing(b, lo) =>
                Observable(AddThenCancel(b, lo)) = Observable(b)

\* C35: in every back-end, adding an order that does not cross and then
\* cancelling it by its id restores the observable book: the resting orders
\* with their queue order, the id map, the match log, best_bid, best_ask and
\* the rows of the top bids and asks are as before the add.
C35_AddThenCancelRoundTrip ==
    /\ Live(array) => RoundTrip(array)
    /\ Live(hash) => RoundTrip(hash)
    /\ Live(tree) => RoundTrip(tree)

----------------------------------------------------------------------------
(* Orders filled on arrival *)

\* the add of lo took book b to b2 and returned with lo completely filled by
\* the matches it logged
FullyFilled(b, b2, lo) ==
    /\ Live(b) /\ Live(b2)
    /\ NewMatches(b, b2) # <<>>
    /\ SumQty(NewMatches(b, b2)) = lo.quantity

\* lo is in no queue and not in the id map of b2, and the queues and the best
\* pointer of lo's own side are as in b
NeverRests(b, b2, lo) ==
    /\ lo.id \notin RestingIds(b2)
    /\ lo.id \notin DOMAIN b2.orders
    /\ \A p \in Prices :
           QueueOf(b2, lo.direction, p) = QueueOf(b, lo.direction, p)
    /\ IF lo.direction = Buy THEN BestBid(b2) = BestBid(b)
       ELSE BestAsk(b2) = BestAsk(b)

FilledOrderNeverRests(b, b2, lo) ==
    FullyFilled(b, b2, lo) => NeverRests(b, b2, lo)

\* C36: an incoming order that is completely filled by matching never rests:
\* after the add it is in no queue and not in the id map, and the queues and
\* the best pointer of its own side are exactly as before the call.
C36_FilledOrderNeverRests ==
    [][submitted' # submitted =>
           /\ FilledOrderNeverRests(array, array', Incoming)
           /\ FilledOrderNeverRests(hash, hash', Incoming)
           /\ FilledOrderNeverRests(tree, tree', Incoming)]_vars

----------------------------------------------------------------------------
(* add, one pass of its outer loop at a time *)

\* the outcome of one evaluation of the outer loop of add
Pass(b, lo, done) == [book |-> b, lo |-> lo, done |-> done]

\* the value of a local variable: the one element of a singleton set
Bound(S) == CHOOSE x \in S : TRUE

\* the end of a pass that left quantity to fill: _update_best_ask_price() or
\* _update_best_bid_price() has given b2
Base_pass_updated(b2, lo) == Pass(b2, lo, b2.err # NoErr)

\* the pass after the inner loop has given m at the level r
Base_pass_matched(b, r, m) ==
    LET b1 == [SetLevel(b, r.ref, m.entries)
                  EXCEPT !.orders = m.orders, !.matches = m.matches]
    IN  IF m.done THEN Pass(b1, m.lo, TRUE)
        ELSE Bound({Base_pass_updated(b2, m.lo) :
                 b2 \in {IF m.lo.direction = Buy
                         THEN update_best_ask_price(b1, <<>>)
                         ELSE update_best_bid_price(b1, <<>>)}})

\* the pass after _get_price_level has given r
Base_pass_level(b, lo, r) ==
    IF r.err # NoErr THEN Pass(Raise(b, r.err), lo, TRUE)
    ELSE Bound({Base_pass_matched(b, r, m) :
             m \in {Base_match_entries(Level(b, r.ref), lo,
                                       b.orders, b.matches)}})

\* the enqueue that ends the call, after _add_order_to_queue has given b1
Base_pass_enqueued(b1, lo) ==
    Pass(IF b1.err # NoErr THEN b1
         ELSE IF lo.direction = Buy
              THEN update_best_bid_price(b1, <<lo.price>>)
              ELSE update_best_ask_price(b1, <<lo.price>>),
         lo, TRUE)

\* BaseDequeLimitOrderBook.add: the loop condition and, when it holds, one
\* pass through the body; when it does not, the enqueue that ends the call
Base_add_pass(b, lo) ==
    IF Base_crosses(b, lo)
    THEN Bound({Base_pass_level(b, lo, r) :
             r \in {get_price_level(b, IF lo.direction = Buy THEN best_ask(b)
                                       ELSE best_bid(b))}})
    ELSE Bound({Base_pass_enqueued(b1, lo) :
             b1 \in {add_order_to_queue(b, lo)}})

\* HashDequeLimitOrderBook.add, likewise
Hash_add_pass(b, lo) ==
    LET buy == lo.direction = Buy
        at == IF buy THEN b.ask_min ELSE b.bid_max
    IN
    IF Hash_crosses(b, lo)
    THEN LET stored == at \in DOMAIN b.price_queues
             entries == IF stored THEN b.price_queues[at] ELSE <<>>
             m == Hash_match_entries(entries, lo, b.orders, b.matches)
             b1 == [b EXCEPT !.orders = m.orders, !.matches = m.matches,
                             !.price_queues =
                                 IF stored THEN [@ EXCEPT ![at] = m.entries]
                                 ELSE @]
         IN  IF m.done THEN Pass(b1, m.lo, TRUE)
             ELSE Pass(IF buy THEN [b1 EXCEPT !.ask_min = @ + 1]
                       ELSE [b1 EXCEPT !.bid_max = @ - 1],
                       m.lo, FALSE)
    ELSE LET b1 == Hash_add_order_to_queue(b, lo) IN
         Pass(IF buy
              THEN IF b1.bid_max < lo.price
                   THEN [b1 EXCEPT !.bid_max = lo.price] ELSE b1
              ELSE IF b1.ask_min > lo.price
                   THEN [b1 EXCEPT !.ask_min = lo.price] ELSE b1,
              lo, TRUE)

add_pass(b, lo) ==
    IF b.kind = "hash" THEN Hash_add_pass(b, lo) ELSE Base_add_pass(b, lo)

\* a book inside add: the order with the quantity it has left, and, as
\* history, the order as it was passed and the book as the call found it
Walking(lo, b) == [pc |-> "walk", lo |-> lo, order |-> lo, from |-> b]

AllIdle == call = NoCall

\* add is called on every book that has not raised
Begin(direction, price, quantity) ==
    /\ AllIdle
    /\ Len(submitted) < MaxOrders
    /\ Live(array) \/ Live(hash) \/ Live(tree)
    /\ LET id == Len(submitted) + 1
           lo == LimitOrder(id, TraderOf(id), price, quantity, direction)
       IN  /\ submitted' = Append(submitted, lo)
           /\ call' = [array |-> IF Live(array) THEN Walking(lo, array)
                                 ELSE Idle,
                       hash |-> IF Live(hash) THEN Walking(lo, hash) ELSE Idle,
                       tree |-> IF Live(tree) THEN Walking(lo, tree) ELSE Idle]
           /\ UNCHANGED <<array, hash, tree, ncancel>>

\* the call of book `name` after the pass r
AfterPass(name, r) ==
    [call EXCEPT ![name] = IF r.done THEN Idle ELSE [@ EXCEPT !.lo = r.lo]]

ArrayPass ==
    /\ call.array.pc = "walk"
    /\ \E r \in {add_pass(array, call.array.lo)} :
           array' = r.book /\ call' = AfterPass("array", r)
    /\ UNCHANGED <<hash, tree, submitted, ncancel>>

HashPass ==
    /\ call.hash.pc = "walk"
    /\ \E r \in {add_pass(hash, call.hash.lo)} :
           hash' = r.book /\ call' = AfterPass("hash", r)
    /\ UNCHANGED <<array, tree, submitted, ncancel>>

TreePass ==
    /\ call.tree.pc = "walk"
    /\ \E r \in {add_pass(tree, call.tree.lo)} :
           tree' = r.book /\ call' = AfterPass("tree", r)
    /\ UNCHANGED <<array, hash, submitted, ncancel>>

CancelIdle(order_id) == AllIdle /\ Cancel(order_id)

NextWalk ==
    \/ \E d \in Directions, p \in Prices, q \in Quantities : Begin(d, p, q)
    \/ ArrayPass
    \/ HashPass
    \/ TreePass
    \/ \E id \in 1..MaxOrders : CancelIdle(id)

\* a call of add runs to completion: a book inside add takes its next pass
SpecWalk ==
    /\ Init /\ [][NextWalk]_vars
    /\ WF_vars(ArrayPass) /\ WF_vars(HashPass) /\ WF_vars(TreePass)

\* the passes of a call, taken one by one, end in the book that add returns
Returned(name, b2) ==
    call[name].pc = "walk" /\ call'[name].pc = "idle" =>
        b2 = add(call[name].from, call[name].order)

PassesMakeAdd ==
    [][Returned("array", array') /\ Returned("hash", hash')
           /\ Returned("tree", tree')]_vars

\* every call of add on the named book ends
Terminates(name) == (call[name].pc = "walk") ~> (call[name].pc = "idle")

\* a pass that changes the named book and does not end the call has moved the
\* best price of the opposite side towards the prices the order does not cross (up
\* for an incoming Buy, down for an incoming Sell), or has left no order on
\* the opposite side
Progress(name, b, b2) ==
    call[name].pc = "walk" /\ call'[name].pc = "walk" /\ b2 # b =>
        IF call[name].lo.direction = Buy
        THEN BestAsk(b2) > BestAsk(b) \/ RestingSells(b2) = {}
        ELSE BestBid(b2) < BestBid(b) \/ RestingBuys(b2) = {}

WalkProgresses ==
    [][Progress("array", array, array') /\ Progress("hash", hash, hash')
           /\ Progress("tree", tree, tree')]_vars

\* C37: every call of add, in every back-end and every reachable book state,
\* ends after finitely many passes of its loop for every valid order, and the
\* walk over the levels always moves towards a level that no longer crosses,
\* so that it cannot cycle.
C37_AddTerminates ==
    /\ Terminates("array") /\ Terminates("hash") /\ Terminates("tree")
    /\ WalkProgresses

====
